---- MODULE Spec2Model ----
(***************************************************************************)
(* A model of rfc8025_validator.py: the loader of the ISO 3166-2 reference *)
(* table, the reader of the geolocation feed, validate, the formatter of   *)
(* validation errors and main's loop with its exit status.                 *)
(*                                                                         *)
(* Text is modelled by TLA+ strings: Len, SubSeq and \o act on them as on  *)
(* sequences of characters.  A CSV row is the list of fields csv.reader    *)
(* returns for it.                                                         *)
(***************************************************************************)
EXTENDS Integers, Sequences, FiniteSets, TLC

VARIABLES
    refRows,            \* the rows csv.reader returns for IP2LOCATION-ISO3166-2.CSV
    feedRows,           \* the rows csv.reader returns for sys.stdin
    pc,                 \* main's position: "load", "loop", "validate", "end", "exit"
    refPos,             \* read_ip2location_data: rows consumed so far
    records,            \* read_ip2location_data: its local dict
    ip2location_data,   \* main: the index read_ip2location_data returned
    feedPos,            \* read_geolocation_data: rows consumed so far
    yielded,            \* the records the generator has yielded, in order
    record,             \* main: the loop variable
    validated,          \* the records validate has been called with, in order
    raised,             \* the exception the last call of validate ended with
    exit_code,          \* main: exit_code
    stdout,             \* the lines printed on sys.stdout
    status              \* the process's exit status; -1 while it runs

vars == <<refRows, feedRows, pc, refPos, records, ip2location_data, feedPos,
          yielded, record, validated, raised, exit_code, stdout, status>>

(***************************************************************************)
(* Strings                                                                 *)
(***************************************************************************)
Char(s, i) == SubSeq(s, i, i)

Digits == {"0", "1", "2", "3", "4", "5", "6", "7", "8", "9"}

HexDigits == Digits \cup {"a", "b", "c", "d", "e", "f", "A", "B", "C", "D", "E", "F"}

DigitValue(c) ==
    CASE c = "0" -> 0 [] c = "1" -> 1 [] c = "2" -> 2 [] c = "3" -> 3
      [] c = "4" -> 4 [] c = "5" -> 5 [] c = "6" -> 6 [] c = "7" -> 7
      [] c = "8" -> 8 [] c = "9" -> 9
      [] c \in {"a", "A"} -> 10 [] c \in {"b", "B"} -> 11
      [] c \in {"c", "C"} -> 12 [] c \in {"d", "D"} -> 13
      [] c \in {"e", "E"} -> 14 [] c \in {"f", "F"} -> 15

\* str.isascii() and str.isdigit(): false of the empty string
IsAsciiDigits(s) == Len(s) > 0 /\ \A i \in 1..Len(s) : Char(s, i) \in Digits

\* int(s, base) of a string of digits of that base
RECURSIVE IntOf(_, _)
IntOf(s, base) ==
    IF Len(s) = 0 THEN 0
    ELSE IntOf(SubSeq(s, 1, Len(s) - 1), base) * base + DigitValue(Char(s, Len(s)))

\* s.split(sep) for a one-character sep: never empty, "" gives <<"">>
RECURSIVE SplitFrom(_, _, _, _)
SplitFrom(s, sep, start, i) ==
    IF i > Len(s) THEN <<SubSeq(s, start, Len(s))>>
    ELSE IF Char(s, i) = sep
         THEN <<SubSeq(s, start, i - 1)>> \o SplitFrom(s, sep, i + 1, i + 1)
         ELSE SplitFrom(s, sep, start, i + 1)

Split(s, sep) == SplitFrom(s, sep, 1, 1)

\* sep.join(row)
RECURSIVE Join(_, _)
Join(row, sep) ==
    IF Len(row) = 0 THEN ""
    ELSE IF Len(row) = 1 THEN row[1]
    ELSE row[1] \o sep \o Join(Tail(row), sep)

(***************************************************************************)
(* ipaddress.ip_network(address), strict.  An address is kept as its bits, *)
(* most significant first (32 for IPv4, 128 for IPv6), so that no width is *)
(* lost.  A parse ends either with a network or with the exception raised. *)
(***************************************************************************)
IPV4LENGTH == 32

IPV6LENGTH == 128

HEXTET_COUNT == 8

Err(type) == [ok |-> FALSE, exc |-> type]

\* the w bits of v, most significant first
RECURSIVE BitsOf(_, _)
BitsOf(v, w) ==
    IF w = 0 THEN <<>> ELSE BitsOf(v \div 2, w - 1) \o <<v % 2>>

RECURSIVE Flatten(_)
Flatten(ss) == IF Len(ss) = 0 THEN <<>> ELSE ss[1] \o Flatten(Tail(ss))

\* IPv4Address._parse_octet: the octet's value, or -1 where it raises
ParseOctet(octet_str) ==
    IF Len(octet_str) = 0 THEN -1
    ELSE IF ~IsAsciiDigits(octet_str) THEN -1
    ELSE IF Len(octet_str) > 3 THEN -1
    ELSE IF octet_str # "0" /\ Char(octet_str, 1) = "0" THEN -1
    ELSE IF IntOf(octet_str, 10) > 255 THEN -1
    ELSE IntOf(octet_str, 10)

\* IPv4Address._ip_int_from_string
V4IpIntFromString(ip_str) ==
    IF Len(ip_str) = 0 THEN Err("AddressValueError")
    ELSE LET octets == Split(ip_str, ".")
         IN  IF Len(octets) # 4 THEN Err("AddressValueError")
             ELSE IF \E i \in 1..4 : ParseOctet(octets[i]) = -1
                  THEN Err("AddressValueError")
                  ELSE [ok |-> TRUE,
                        bits |-> Flatten([i \in 1..4 |-> BitsOf(ParseOctet(octets[i]), 8)])]

\* _IPAddressBase._prefix_from_prefix_string
PrefixFromPrefixStr(prefixlen_str, max_prefixlen) ==
    IF ~IsAsciiDigits(prefixlen_str) THEN Err("NetmaskValueError")
    ELSE IF IntOf(prefixlen_str, 10) > max_prefixlen THEN Err("NetmaskValueError")
    ELSE [ok |-> TRUE, prefixlen |-> IntOf(prefixlen_str, 10)]

\* _prefix_from_ip_int: bits are ones followed by zeros
PrefixFromIpInt(bits) ==
    LET n == Len(bits)
        trailing_zeroes == CHOOSE t \in 0..n :
            /\ \A i \in (n - t + 1)..n : bits[i] = 0
            /\ (t < n => bits[n - t] = 1)
        prefixlen == n - trailing_zeroes
    IN  IF \A i \in 1..prefixlen : bits[i] = 1
        THEN [ok |-> TRUE, prefixlen |-> prefixlen]
        ELSE Err("ValueError")

\* _prefix_from_ip_string: a netmask, or else a hostmask
PrefixFromIpString(ip_str) ==
    LET ip == V4IpIntFromString(ip_str)
    IN  IF ~ip.ok THEN Err("NetmaskValueError")
        ELSE IF PrefixFromIpInt(ip.bits).ok THEN PrefixFromIpInt(ip.bits)
        ELSE LET inverted == [i \in 1..Len(ip.bits) |-> 1 - ip.bits[i]]
             IN  IF PrefixFromIpInt(inverted).ok THEN PrefixFromIpInt(inverted)
                 ELSE Err("NetmaskValueError")

\* IPv4Network._make_netmask of the text after the slash
V4MakeNetmask(arg) ==
    LET prefix == PrefixFromPrefixStr(arg, IPV4LENGTH)
    IN  IF prefix.ok THEN prefix ELSE PrefixFromIpString(arg)

\* a variant of HasHostBitsSet as with strict=False: host bits are let through
HasHostBitsSet_NotStrict(bits, prefixlen) == FALSE

\* packed & netmask != packed
HasHostBitsSet(bits, prefixlen) == \E i \in (prefixlen + 1)..Len(bits) : bits[i] = 1

\* a variant of IPv4Network that takes an address without "/" for no network
IPv4Network_SlashRequired(address) ==
    LET addr == Split(address, "/")
    IN  IF Len(addr) # 2 THEN Err("AddressValueError")
        ELSE LET ip == V4IpIntFromString(addr[1])
                 mask == V4MakeNetmask(addr[2])
             IN  IF ~ip.ok THEN ip
                 ELSE IF ~mask.ok THEN mask
                 ELSE IF HasHostBitsSet(ip.bits, mask.prefixlen) THEN Err("ValueError")
                 ELSE [ok |-> TRUE, version |-> 4, bits |-> ip.bits,
                       prefixlen |-> mask.prefixlen]

\* IPv4Network(address), strict
IPv4Network(address) ==
    LET addr == Split(address, "/")
    IN  IF Len(addr) > 2 THEN Err("AddressValueError")
        ELSE LET ip == V4IpIntFromString(addr[1])
                 mask == IF Len(addr) > 1 THEN V4MakeNetmask(addr[2])
                         ELSE [ok |-> TRUE, prefixlen |-> IPV4LENGTH]
             IN  IF ~ip.ok THEN ip
                 ELSE IF ~mask.ok THEN mask
                 ELSE IF HasHostBitsSet(ip.bits, mask.prefixlen) THEN Err("ValueError")
                 ELSE [ok |-> TRUE, version |-> 4, bits |-> ip.bits,
                       prefixlen |-> mask.prefixlen]

Contains(s, c) == \E i \in 1..Len(s) : Char(s, i) = c

\* IPv6Address._parse_hextet: the hextet's value, or -1 where it (or int) raises
ParseHextet(hextet_str) ==
    IF \E i \in 1..Len(hextet_str) : Char(hextet_str, i) \notin HexDigits THEN -1
    ELSE IF Len(hextet_str) > 4 THEN -1
    ELSE IF Len(hextet_str) = 0 THEN -1
    ELSE IntOf(hextet_str, 16)

\* IPv6Address._split_scope_id: ip_str.partition('%')
SplitScopeId(ip_str) ==
    LET p == Split(ip_str, "%")
    IN  IF Len(p) = 1 THEN [ok |-> TRUE, addr |-> p[1]]
        ELSE IF Len(p) > 2 \/ Len(p[2]) = 0 THEN Err("AddressValueError")
        ELSE [ok |-> TRUE, addr |-> p[1]]

\* IPv6Address._ip_int_from_string
V6IpIntFromString(ip_str) ==
    IF Len(ip_str) = 0 THEN Err("AddressValueError")
    ELSE
    LET raw == Split(ip_str, ":")
        hasV4 == Contains(raw[Len(raw)], ".")
        v4 == V4IpIntFromString(raw[Len(raw)])
        \* the IPv4-style suffix is replaced by its two hextets
        parts == IF hasV4 THEN SubSeq(raw, 1, Len(raw) - 1) \o <<"0", "0">> ELSE raw
        n == Len(parts)
        Hextet(i) ==
            IF hasV4 /\ i = n - 1 THEN SubSeq(v4.bits, 1, 16)
            ELSE IF hasV4 /\ i = n THEN SubSeq(v4.bits, 17, 32)
            ELSE BitsOf(ParseHextet(parts[i]), 16)
        Bad(i) == ParseHextet(parts[i]) = -1
        skips == {i \in 2..(n - 1) : parts[i] = ""}
        skip_index == CHOOSE i \in skips : TRUE
        hi0 == skip_index - 1
        lo0 == n - skip_index
        parts_hi == IF parts[1] = "" THEN hi0 - 1 ELSE hi0
        parts_lo == IF parts[n] = "" THEN lo0 - 1 ELSE lo0
        parts_skipped == HEXTET_COUNT - (parts_hi + parts_lo)
    IN  IF Len(raw) < 3 THEN Err("AddressValueError")
        ELSE IF hasV4 /\ ~v4.ok THEN Err("AddressValueError")
        ELSE IF n > HEXTET_COUNT + 1 THEN Err("AddressValueError")
        ELSE IF Cardinality(skips) > 1 THEN Err("AddressValueError")
        ELSE IF skips # {}
        THEN IF parts[1] = "" /\ parts_hi # 0 THEN Err("AddressValueError")
             ELSE IF parts[n] = "" /\ parts_lo # 0 THEN Err("AddressValueError")
             ELSE IF parts_skipped < 1 THEN Err("AddressValueError")
             ELSE IF \E i \in (1..parts_hi) \cup ((n - parts_lo + 1)..n) : Bad(i)
                  THEN Err("AddressValueError")
             ELSE [ok |-> TRUE,
                   bits |-> Flatten([i \in 1..parts_hi |-> Hextet(i)])
                            \o [i \in 1..(16 * parts_skipped) |-> 0]
                            \o Flatten([i \in 1..parts_lo |-> Hextet(n - parts_lo + i)])]
        ELSE IF n # HEXTET_COUNT THEN Err("AddressValueError")
             ELSE IF parts[1] = "" \/ parts[n] = "" THEN Err("AddressValueError")
             ELSE IF \E i \in 1..n : Bad(i) THEN Err("AddressValueError")
             ELSE [ok |-> TRUE, bits |-> Flatten([i \in 1..n |-> Hextet(i)])]

\* IPv6Network(address), strict
IPv6Network(address) ==
    LET addr == Split(address, "/")
    IN  IF Len(addr) > 2 THEN Err("AddressValueError")
        ELSE LET scoped == SplitScopeId(addr[1])
                 ip == IF scoped.ok THEN V6IpIntFromString(scoped.addr) ELSE scoped
                 mask == IF Len(addr) > 1 THEN PrefixFromPrefixStr(addr[2], IPV6LENGTH)
                         ELSE [ok |-> TRUE, prefixlen |-> IPV6LENGTH]
             IN  IF ~ip.ok THEN ip
                 ELSE IF ~mask.ok THEN mask
                 ELSE IF HasHostBitsSet(ip.bits, mask.prefixlen) THEN Err("ValueError")
                 ELSE [ok |-> TRUE, version |-> 6, bits |-> ip.bits,
                       prefixlen |-> mask.prefixlen]

\* ip_network(address): IPv4Network, else IPv6Network, else ValueError; the
\* ValueError of a network with host bits set is not caught on the way
ip_network(address) ==
    LET v4 == IPv4Network(address)
        v6 == IPv6Network(address)
    IN  IF v4.ok \/ v4.exc = "ValueError" THEN v4
        ELSE IF v6.ok \/ v6.exc = "ValueError" THEN v6
        ELSE Err("ValueError")

(***************************************************************************)
(* Values                                                                  *)
(***************************************************************************)
\* a name that is not bound yet
Unbound == [bound |-> FALSE]

\* no exception: the call returned
NoException == [type |-> "None", msg |-> ""]

ValueError(msg) == [type |-> "ValueError", msg |-> msg]

KeyError(key) == [type |-> "KeyError", msg |-> key]

\* GeoRecord(**dict(zip(["prefix", "country", "region", "city", "zip"], row)))
GeoRecord(row) ==
    [prefix |-> row[1], country |-> row[2], region |-> row[3],
     city |-> row[4], zip |-> row[5]]

(***************************************************************************)
(* read_ip2location_data                                                   *)
(***************************************************************************)
\* records.setdefault(key, set())
SetDefault(d, key) ==
    [c \in DOMAIN d \cup {key} |-> IF c \in DOMAIN d THEN d[c] ELSE {}]

\* records.setdefault(row[0], set()).add(row[2])
SetDefaultAdd(d, row) ==
    [c \in DOMAIN d \cup {row[1]} |->
        IF c = row[1] THEN SetDefault(d, row[1])[c] \cup {row[3]} ELSE d[c]]

\* a variant of ReadIp2locationRaise that passes over a row without columns 0
\* and 2 and goes on with the next one
ReadIp2locationRaise_Skip ==
    /\ pc = "load"
    /\ refPos < Len(refRows)
    /\ Len(refRows[refPos + 1]) < 3
    /\ refPos' = refPos + 1
    /\ UNCHANGED <<refRows, feedRows, pc, records, ip2location_data, feedPos, yielded,
                   record, validated, raised, exit_code, stdout, status>>

\* one turn of the loop over csv.reader(csvfile): the row has columns 0 and 2
ReadIp2locationRow ==
    /\ pc = "load"
    /\ refPos < Len(refRows)
    /\ Len(refRows[refPos + 1]) >= 3
    /\ records' = SetDefaultAdd(records, refRows[refPos + 1])
    /\ refPos' = refPos + 1
    /\ UNCHANGED <<refRows, feedRows, pc, ip2location_data, feedPos, yielded, record,
                   validated, raised, exit_code, stdout, status>>

\* row[0] or row[2] raises IndexError; nothing in main catches it (the call is
\* before main's try), so the interpreter ends the process with status 1.
\* row[0], where it exists, has been given its empty set by then.
ReadIp2locationRaise ==
    /\ pc = "load"
    /\ refPos < Len(refRows)
    /\ Len(refRows[refPos + 1]) < 3
    /\ records' = IF Len(refRows[refPos + 1]) >= 1
                  THEN SetDefault(records, refRows[refPos + 1][1])
                  ELSE records
    /\ refPos' = refPos + 1
    /\ pc' = "exit"
    /\ status' = 1
    /\ UNCHANGED <<refRows, feedRows, ip2location_data, feedPos, yielded, record,
                   validated, raised, exit_code, stdout>>

\* return records; main binds ip2location_data and sets exit_code = 0
ReadIp2locationReturn ==
    /\ pc = "load"
    /\ refPos = Len(refRows)
    /\ ip2location_data' = [bound |-> TRUE, value |-> records]
    /\ exit_code' = 0
    /\ pc' = "loop"
    /\ UNCHANGED <<refRows, feedRows, refPos, records, feedPos, yielded, record,
                   validated, raised, stdout, status>>

(***************************************************************************)
(* validate                                                                *)
(***************************************************************************)
\* lines 84-87
CheckPrefix(rec) ==
    IF ip_network(rec.prefix).ok THEN NoException ELSE ValueError("Invalid prefix")

\* a variant of CheckCountry without the test of line 89: an empty country is
\* looked up like any other
CheckCountry_EmptyLookedUp(rec, iso3166_2) ==
    IF rec.country \notin DOMAIN iso3166_2
    THEN ValueError("Wrong country code")
    ELSE NoException

\* lines 89-93
CheckCountry(rec, iso3166_2) ==
    IF rec.country # "" /\ rec.country \notin DOMAIN iso3166_2
    THEN ValueError("Wrong country code")
    ELSE NoException

\* line 99: the regions of all countries
AllRegions(iso3166_2) == UNION {iso3166_2[c] : c \in DOMAIN iso3166_2}

\* a variant of CheckRegion that takes the regions of all countries also when
\* the country is given
CheckRegion_AnyCountry(rec, iso3166_2) ==
    IF rec.region = "" THEN NoException
    ELSE IF rec.region \notin UNION {iso3166_2[c] : c \in DOMAIN iso3166_2}
         THEN ValueError("Wrong region code")
         ELSE NoException

\* lines 95-102; the lookup of line 97 raises KeyError for a missing key
CheckRegion(rec, iso3166_2) ==
    IF rec.region = "" THEN NoException
    ELSE IF rec.country # "" /\ rec.country \notin DOMAIN iso3166_2
         THEN KeyError(rec.country)
    ELSE LET regions == IF rec.country # "" THEN iso3166_2[rec.country]
                        ELSE AllRegions(iso3166_2)
         IN  IF rec.region \notin regions THEN ValueError("Wrong region code")
             ELSE NoException

\* a variant of validate that applies the country rule before the prefix rule
validate_CountryFirst(rec, iso3166_2) ==
    LET prefixError == CheckPrefix(rec)
        countryError == CheckCountry(rec, iso3166_2)
    IN  IF countryError # NoException THEN countryError
        ELSE IF prefixError # NoException THEN prefixError
        ELSE CheckRegion(rec, iso3166_2)

\* validate(record, iso3166_2): the exception it ends with
validate(rec, iso3166_2) ==
    LET prefixError == CheckPrefix(rec)
        countryError == CheckCountry(rec, iso3166_2)
    IN  IF prefixError # NoException THEN prefixError
        ELSE IF countryError # NoException THEN countryError
        ELSE CheckRegion(rec, iso3166_2)

(***************************************************************************)
(* format_validation_error                                                 *)
(***************************************************************************)
\* a variant of format_validation_error that leaves an empty value out together
\* with its comma
format_validation_error_NoEmpty(rec, error) ==
    LET values == <<rec.prefix, rec.country, rec.region, rec.city, rec.zip>>
        kept == SelectSeq(values, LAMBDA v : v # "")
    IN  error.msg \o ": " \o Join(kept, ",")

format_validation_error(rec, error) ==
    error.msg \o ": " \o rec.prefix \o "," \o rec.country \o "," \o rec.region
        \o "," \o rec.city \o "," \o rec.zip

(***************************************************************************)
(* main and the generator read_geolocation_data                            *)
(***************************************************************************)
\* a variant of print that leaves out a line already printed
print_Once(out, line) ==
    IF \E i \in 1..Len(out) : out[i] = line THEN out ELSE Append(out, line)

\* print(line)
print(out, line) == Append(out, line)

\* a variant of ExitCodeAfter that sets exit_code from the last record alone
ExitCodeAfter_Last(code, error) == IF error.type = "ValueError" THEN 1 ELSE 0

\* lines 141-144: exit_code after a call of validate
ExitCodeAfter(code, error) == IF error.type = "ValueError" THEN 1 ELSE code

\* a variant of ReadGeolocationRaise as if the error were handled inside the
\* loop: the message is printed and the next row is read
ReadGeolocationRaise_GoOn ==
    /\ pc = "loop"
    /\ feedPos < Len(feedRows)
    /\ Len(feedRows[feedPos + 1]) # 5
    /\ feedPos' = feedPos + 1
    /\ stdout' = Append(stdout, "Malformatted record: " \o Join(feedRows[feedPos + 1], ","))
    /\ exit_code' = 1
    /\ UNCHANGED <<refRows, feedRows, pc, refPos, records, ip2location_data, yielded,
                   record, validated, raised, status>>

\* the generator yields the next row as a record; the loop body is entered
ReadGeolocationYield ==
    /\ pc = "loop"
    /\ feedPos < Len(feedRows)
    /\ Len(feedRows[feedPos + 1]) = 5
    /\ feedPos' = feedPos + 1
    /\ record' = GeoRecord(feedRows[feedPos + 1])
    /\ yielded' = Append(yielded, GeoRecord(feedRows[feedPos + 1]))
    /\ pc' = "validate"
    /\ UNCHANGED <<refRows, feedRows, refPos, records, ip2location_data, validated,
                   raised, exit_code, stdout, status>>

\* the generator raises ValueError for a row that has not 5 fields; main's outer
\* except prints it and sets exit_code, and the loop is left
ReadGeolocationRaise ==
    /\ pc = "loop"
    /\ feedPos < Len(feedRows)
    /\ Len(feedRows[feedPos + 1]) # 5
    /\ feedPos' = feedPos + 1
    /\ stdout' = print(stdout, "Malformatted record: " \o Join(feedRows[feedPos + 1], ","))
    /\ exit_code' = 1
    /\ pc' = "end"
    /\ UNCHANGED <<refRows, feedRows, refPos, records, ip2location_data, yielded,
                   record, validated, raised, status>>

\* the generator is exhausted: the loop ends
ReadGeolocationStop ==
    /\ pc = "loop"
    /\ feedPos = Len(feedRows)
    /\ pc' = "end"
    /\ UNCHANGED <<refRows, feedRows, refPos, records, ip2location_data, feedPos,
                   yielded, record, validated, raised, exit_code, stdout, status>>

\* the loop body: validate(record, ip2location_data) and its except ValueError.
\* A KeyError is caught by neither except: the process ends with status 1.
ValidateRecord ==
    /\ pc = "validate"
    /\ raised' = validate(record, ip2location_data.value)
    /\ validated' = Append(validated, record)
    /\ stdout' = IF raised'.type = "ValueError"
                 THEN print(stdout, format_validation_error(record, raised'))
                 ELSE stdout
    /\ exit_code' = ExitCodeAfter(exit_code, raised')
    /\ pc' = IF raised'.type = "KeyError" THEN "exit" ELSE "loop"
    /\ status' = IF raised'.type = "KeyError" THEN 1 ELSE status
    /\ UNCHANGED <<refRows, feedRows, refPos, records, ip2location_data, feedPos,
                   yielded, record>>

\* lines 152-153: sys.exit(exit_code) if exit_code, else main returns (status 0)
Exit ==
    /\ pc = "end"
    /\ status' = exit_code
    /\ pc' = "exit"
    /\ UNCHANGED <<refRows, feedRows, refPos, records, ip2location_data, feedPos,
                   yielded, record, validated, raised, exit_code, stdout>>

Next ==
    \/ ReadIp2locationRow
    \/ ReadIp2locationRaise
    \/ ReadIp2locationReturn
    \/ ReadGeolocationYield
    \/ ReadGeolocationRaise
    \/ ReadGeolocationStop
    \/ ValidateRecord
    \/ Exit

(***************************************************************************)
(* Inputs                                                                  *)
(***************************************************************************)
MaxRefRows == 2

MaxFeedRows == 3

MaxPrefixLen == 34

\* all sequences over S of length at most n
SeqsUpTo(S, n) == UNION {[1..k -> S] : k \in 0..n}

\* rows of the reference table: country code, subdivision name, region code;
\* one has a fourth column, one lacks the third, one is a blank line
RefRowSet ==
    { <<"US", "California", "CA">>,
      <<"FR", "Paris", "75", "FR-75">>,
      <<"US", "New York">>,
      <<>> }

RefTables == SeqsUpTo(RefRowSet, MaxRefRows)

\* rows of the feed: three of 5 fields, one of 4 and one of 6
FeedRowSet ==
    { <<"198.51.100.0/24", "FR", "75", "Paris", "75000">>,
      <<"198.51.100.0/24", "FR", "99", "Paris", "75000">>,
      <<"bad", "", "", "", "">>,
      <<"192.0.2.0/24", "US", "CA", "94043">>,
      <<"192.0.2.0/24", "US", "CA", "Mountain View", "94043", "x">> }

InitWith(refs, feeds) ==
    /\ refRows \in refs
    /\ feedRows \in feeds
    /\ pc = "load"
    /\ refPos = 0
    /\ records = <<>>
    /\ ip2location_data = Unbound
    /\ feedPos = 0
    /\ yielded = <<>>
    /\ record = Unbound
    /\ validated = <<>>
    /\ raised = NoException
    /\ exit_code = 0
    /\ stdout = <<>>
    /\ status = -1

\* whole runs over short feeds
Init == InitWith(RefTables, SeqsUpTo(FeedRowSet, MaxFeedRows))

Spec == Init /\ [][Next]_vars

\* prefixes ip_network accepts, and prefixes it rejects
ValidPrefixTexts == {"192.0.2.0/24", "2001:db8::/32"}

InvalidPrefixTexts == {"bad", "192.0.2.5/24"}

\* single records: every combination of the field values below
ValidateRows ==
    { <<p, c, r, city, zip>> :
        p \in ValidPrefixTexts \cup InvalidPrefixTexts,
        c \in {"", "US", "FR", "ZZ", "us"},
        r \in {"", "CA", "75", "ZZ-NONE"},
        city \in {"", "X", "St Louis, MO"},
        zip \in {"", "00000"} }

\* one call of validate per run, over many records
InitValidate ==
    InitWith(RefTables, {<<row>> : row \in ValidateRows} \cup {<<row>> : row \in FeedRowSet})

SpecValidate == InitValidate /\ [][Next]_vars

(***************************************************************************)
(* Properties of validate                                                  *)
(***************************************************************************)
\* validate has been called; raised is what the last call ended with
Called == Len(validated) > 0

LastValidated == validated[Len(validated)]

Reasons == {"Invalid prefix", "Wrong country code", "Wrong region code"}

\* C1: validate returns or raises one ValueError whose reason is one of the
\* three; no other exception escapes and the process is not ended by one.  The
\* reason is that of the first failing rule: an invalid prefix gives "Invalid
\* prefix" whatever country and region are, a valid prefix with a non-empty
\* unknown country gives "Wrong country code" whatever the region is.
C1_FirstFailingRule ==
    Called =>
        LET r == LastValidated
            idx == ip2location_data.value
        IN  /\ raised = NoException \/ \E m \in Reasons : raised = ValueError(m)
            /\ pc # "exit" \/ status = exit_code
            /\ r.prefix \in InvalidPrefixTexts => raised = ValueError("Invalid prefix")
            /\ (r.prefix \in ValidPrefixTexts /\ r.country # "" /\ r.country \notin DOMAIN idx)
                   => raised = ValueError("Wrong country code")

\* an invalid prefix with an unknown country and an unknown region was validated
C1_Witness ==
    /\ Called
    /\ LastValidated.prefix = "bad"
    /\ LastValidated.country = "ZZ"
    /\ LastValidated.region = "ZZ-NONE"
    /\ raised = ValueError("Invalid prefix")
    /\ DOMAIN ip2location_data.value = {"US", "FR"}

\* C2: the region rule.  With a valid prefix and a non-empty region: under a
\* known country the record fails with "Wrong region code" exactly when the
\* region is not in that country's set; under an empty country exactly when
\* the region is in no country's set.  An empty region never fails the rule.
C2_RegionRule ==
    Called =>
        LET r == LastValidated
            idx == ip2location_data.value
            wrong == raised = ValueError("Wrong region code")
        IN  /\ (r.prefix \in ValidPrefixTexts /\ r.region # "" /\ r.country \in DOMAIN idx)
                   => (wrong <=> r.region \notin idx[r.country])
            /\ (r.prefix \in ValidPrefixTexts /\ r.region # "" /\ r.country = "")
                   => (wrong <=> \A c \in DOMAIN idx : r.region \notin idx[c])
            /\ r.region = "" => ~wrong

\* a region of another country's set was refused under a known country
C2_Witness ==
    /\ Called
    /\ LastValidated.prefix \in ValidPrefixTexts
    /\ LastValidated.country = "US"
    /\ LastValidated.region = "75"
    /\ "US" \in DOMAIN ip2location_data.value
    /\ "FR" \in DOMAIN ip2location_data.value
    /\ "75" \in ip2location_data.value["FR"]
    /\ raised = ValueError("Wrong region code")

\* C3: the country rule.  With a valid prefix, a non-empty country fails with
\* "Wrong country code" exactly when that very string is no key of the index;
\* an empty country never does, and the record is then judged by the region
\* rule.
C3_CountryRule ==
    Called =>
        LET r == LastValidated
            idx == ip2location_data.value
            wrong == raised = ValueError("Wrong country code")
        IN  /\ (r.prefix \in ValidPrefixTexts /\ r.country # "")
                   => (wrong <=> r.country \notin DOMAIN idx)
            /\ r.country = "" => ~wrong
            /\ (r.prefix \in ValidPrefixTexts /\ r.country = "" /\ r.region # "")
                   => (raised = NoException <=> \E c \in DOMAIN idx : r.region \in idx[c])

\* "us" was refused although "US" is a key of the index
C3_Witness ==
    /\ Called
    /\ LastValidated.prefix \in ValidPrefixTexts
    /\ LastValidated.country = "us"
    /\ "US" \in DOMAIN ip2location_data.value
    /\ raised = ValueError("Wrong country code")

(***************************************************************************)
(* Properties of format_validation_error                                   *)
(***************************************************************************)
CountOf(s, c) == Cardinality({i \in 1..Len(s) : Char(s, i) = c})

\* text holds value at position at, followed by sep
HoldsAt(text, at, value, sep) ==
    /\ at + Len(value) + Len(sep) - 1 <= Len(text)
    /\ SubSeq(text, at, at + Len(value) + Len(sep) - 1) = value \o sep

\* C10: the line printed for a refused record is the reason, ": ", and the
\* five values prefix, country, region, city, zip in that order with one comma
\* between neighbours; every value is verbatim, an empty one takes no room, so
\* the line has the four separating commas besides those of the values.
C10_FormattedLine ==
    (Called /\ pc = "loop" /\ raised.type = "ValueError") =>
        LET r == LastValidated
            line == stdout[Len(stdout)]
            p1 == Len(raised.msg) + 3
            p2 == p1 + Len(r.prefix) + 1
            p3 == p2 + Len(r.country) + 1
            p4 == p3 + Len(r.region) + 1
            p5 == p4 + Len(r.city) + 1
        IN  /\ raised.msg \in Reasons
            /\ HoldsAt(line, 1, raised.msg, ": ")
            /\ HoldsAt(line, p1, r.prefix, ",")
            /\ HoldsAt(line, p2, r.country, ",")
            /\ HoldsAt(line, p3, r.region, ",")
            /\ HoldsAt(line, p4, r.city, ",")
            /\ HoldsAt(line, p5, r.zip, "")
            /\ Len(line) = p5 + Len(r.zip) - 1
            /\ CountOf(line, ",") = 4 + CountOf(r.prefix, ",") + CountOf(r.country, ",")
                   + CountOf(r.region, ",") + CountOf(r.city, ",") + CountOf(r.zip, ",")

\* the example of the formatter: an empty region between two commas
C10_Witness ==
    /\ Called
    /\ pc = "loop"
    /\ LastValidated = [prefix |-> "bad", country |-> "US", region |-> "",
                        city |-> "X", zip |-> "00000"]
    /\ stdout = <<"Invalid prefix: bad,US,,X,00000">>

(***************************************************************************)
(* Prefixes                                                                *)
(***************************************************************************)
\* octets with the lowest bit, the highest bit or no bit set
OctetValues == {0, 1, 128}

V4Text(a, b, c, d) ==
    ToString(a) \o "." \o ToString(b) \o "." \o ToString(c) \o "." \o ToString(d)

\* a.b.c.d/n for the octets above and n from -1 to MaxPrefixLen
V4Nets ==
    { [a |-> a, b |-> b, c |-> c, d |-> d, n |-> n,
       text |-> V4Text(a, b, c, d) \o "/" \o ToString(n)] :
        a \in OctetValues, b \in OctetValues, c \in OctetValues, d \in OctetValues,
        n \in -1..MaxPrefixLen }

\* addresses without a prefix length, with the width of their family
BareAddresses ==
    { [text |-> V4Text(a, b, c, d), width |-> IPV4LENGTH] :
        a \in OctetValues, b \in OctetValues, c \in OctetValues, d \in OctetValues }
    \cup { [text |-> "192.0.2.1", width |-> IPV4LENGTH],
           [text |-> "2001:db8::1", width |-> IPV6LENGTH],
           [text |-> "::", width |-> IPV6LENGTH] }

OtherPrefixTexts ==
    { "", "not-an-ip", "192.0.2.0/24", "192.0.2.5/24", "10.0.0.0/33", "10.0.0.0/8",
      "10.0.0.0/255.0.0.0", "10.0.0.0/", "010.0.0.0/8", "256.0.0.0/8", "10.0.0/8",
      "2001:db8::/32", "2001:db8::1/32", "2001:db8::/129", "::ffff:192.0.2.0/120" }

PrefixTexts ==
    {q.text : q \in V4Nets} \cup {q.text : q \in BareAddresses} \cup OtherPrefixTexts

\* one call of validate per run, over many prefixes, country and region empty
InitPrefix ==
    InitWith(SeqsUpTo(RefRowSet, 1),
             {<< <<p, "", "", "", "">> >> : p \in PrefixTexts}
                 \cup {<<row>> : row \in FeedRowSet})

SpecPrefix == InitPrefix /\ [][Next]_vars

\* the low 32 - n bits of a.b.c.d are zero, by arithmetic on its two halves
LowBitsZero(q) ==
    LET h == IPV4LENGTH - q.n
        hi == q.a * 256 + q.b
        lo == q.c * 256 + q.d
    IN  IF h <= 16 THEN lo % (2 ^ h) = 0
        ELSE lo = 0 /\ hi % (2 ^ (h - 16)) = 0

\* C9: strict network parsing.  A record whose prefix is a.b.c.d/n, with empty
\* country and region, is accepted exactly when 0 <= n <= 32 and the low
\* 32 - n bits of the address are zero; otherwise it is refused with "Invalid
\* prefix".
C9_StrictNetwork ==
    Called =>
        \A q \in {x \in V4Nets : x.text = LastValidated.prefix} :
            /\ LastValidated.country = "" /\ LastValidated.region = ""
            /\ raised = IF 0 <= q.n /\ q.n <= IPV4LENGTH /\ LowBitsZero(q)
                        THEN NoException
                        ELSE ValueError("Invalid prefix")

\* 0.0.1.0/23 leaves bit 24 of the address among the host bits
C9_Witness ==
    /\ Called
    /\ LastValidated.prefix = "0.0.1.0/23"
    /\ raised = ValueError("Invalid prefix")
    /\ stdout = <<"Invalid prefix: 0.0.1.0/23,,,,">>

\* C8 as claimed: a record whose prefix is an address without a prefix length
\* is refused with "Invalid prefix".
C8_BareAddressRefused ==
    Called =>
        \A q \in {x \in BareAddresses : x.text = LastValidated.prefix} :
            raised = ValueError("Invalid prefix")

\* C8 as amended: a record whose prefix is an address without a prefix length
\* passes rule 1, the address being read as the network of that one address
\* (prefix length 32 for IPv4, 128 for IPv6); with empty country and region
\* the record is accepted.
C8_BareAddressAccepted ==
    Called =>
        \A q \in {x \in BareAddresses : x.text = LastValidated.prefix} :
            /\ raised = NoException
            /\ stdout = <<>>
            /\ ip_network(q.text).ok
            /\ ip_network(q.text).prefixlen = q.width
            /\ ~HasHostBitsSet(ip_network(q.text).bits, q.width)

\* 192.0.2.1 was validated and accepted
C8_Witness ==
    /\ Called
    /\ LastValidated.prefix = "192.0.2.1"
    /\ raised = NoException
    /\ pc = "exit"
    /\ status = 0

(***************************************************************************)
(* Properties of a whole run                                               *)
(***************************************************************************)
\* the reference table has a row without column 0 or column 2
BadRefRow == \E i \in 1..Len(refRows) : Len(refRows[i]) < 3

\* the index a table of good rows stands for
IndexOf(rows) ==
    [c \in {rows[i][1] : i \in 1..Len(rows)} |->
        {rows[i][3] : i \in {j \in 1..Len(rows) : rows[j][1] = c}}]

Malformed == {i \in 1..Len(feedRows) : Len(feedRows[i]) # 5}

\* the position of the first feed row that has not 5 fields, 0 if there is none
FirstMalformed ==
    IF Malformed = {} THEN 0 ELSE CHOOSE i \in Malformed : \A j \in Malformed : i <= j

\* the first n rows of the feed as records
FeedRecords(n) == [i \in 1..n |-> GeoRecord(feedRows[i])]

Invalid(rec, idx) == validate(rec, idx) # NoException

\* the failure lines of the invalid records among recs, in the order of recs
RECURSIVE FailureLines(_, _)
FailureLines(recs, idx) ==
    IF Len(recs) = 0 THEN <<>>
    ELSE LET error == validate(recs[1], idx)
         IN  (IF error # NoException
              THEN <<format_validation_error(recs[1], error)>>
              ELSE <<>>) \o FailureLines(Tail(recs), idx)

RECURSIVE TotalLen(_)
TotalLen(row) == IF Len(row) = 0 THEN 0 ELSE Len(row[1]) + TotalLen(Tail(row))

\* text ends with the fields of row (at least one), one comma between neighbours
EndsWithRow(text, row) ==
    LET n == TotalLen(row) + Len(row) - 1
    IN  /\ n <= Len(text)
        /\ Split(SubSeq(text, Len(text) - n + 1, Len(text)), ",") = row

\* C4: a feed row that has not 5 fields.  The reader yields the records of the
\* rows before it and none for it or after it; no later row is read or
\* validated; the error printed ends with the row's fields joined by commas;
\* before it the output holds the failure lines of the earlier rows, and
\* nothing is written after it.
C4_StructuralError ==
    (FirstMalformed > 0 /\ ip2location_data.bound) =>
        LET k == FirstMalformed
            idx == ip2location_data.value
        IN  /\ feedPos <= k
            /\ yielded = FeedRecords(Len(yielded))
            /\ Len(yielded) <= k - 1
            /\ Len(validated) <= Len(yielded)
            /\ feedPos < k => stdout = FailureLines(validated, idx)
            /\ feedPos = k =>
                   /\ pc \in {"end", "exit"}
                   /\ yielded = FeedRecords(k - 1)
                   /\ validated = yielded
                   /\ Len(stdout) >= 1
                   /\ SubSeq(stdout, 1, Len(stdout) - 1) = FailureLines(validated, idx)
                   /\ EndsWithRow(stdout[Len(stdout)], feedRows[k])
                   /\ exit_code = 1

\* an invalid record, then a row of 4 fields, then another invalid record
C4_Witness ==
    /\ pc = "exit"
    /\ refRows = << <<"FR", "Paris", "75", "FR-75">> >>
    /\ feedRows = << <<"198.51.100.0/24", "FR", "99", "Paris", "75000">>,
                     <<"192.0.2.0/24", "US", "CA", "94043">>,
                     <<"bad", "", "", "", "">> >>
    /\ stdout = << "Wrong region code: 198.51.100.0/24,FR,99,Paris,75000",
                   "Malformatted record: 192.0.2.0/24,US,CA,94043" >>

\* C5: over a feed of rows of 5 fields, the lines written are at every moment
\* the failure lines of the invalid records among those validated so far, in
\* the order they were read, one per invalid record even when records repeat
\* and none for a valid record; the records are validated in feed order and,
\* at the end of the loop, all of them have been.
C5_FailureLinesInOrder ==
    (Malformed = {} /\ ip2location_data.bound) =>
        /\ validated = FeedRecords(Len(validated))
        /\ stdout = FailureLines(validated, ip2location_data.value)
        /\ Len(stdout) = Cardinality({i \in 1..Len(validated) :
                                         Invalid(validated[i], ip2location_data.value)})
        /\ pc \in {"end", "exit"} => Len(validated) = Len(feedRows)

\* the end-to-end example: index {"FR": {"75"}} and three rows, two lines
C5_Witness ==
    /\ pc = "exit"
    /\ ip2location_data = [bound |-> TRUE, value |-> [c \in {"FR"} |-> {"75"}]]
    /\ feedRows = << <<"198.51.100.0/24", "FR", "75", "Paris", "75000">>,
                     <<"198.51.100.0/24", "FR", "99", "Paris", "75000">>,
                     <<"bad", "", "", "", "">> >>
    /\ stdout = << "Wrong region code: 198.51.100.0/24,FR,99,Paris,75000",
                   "Invalid prefix: bad,,,," >>

\* C6: a reference row with fewer than 3 columns.  No index is ever returned,
\* the run goes from loading straight to its end, no feed row is read, no
\* record is validated and no line is written.
C6_ReferenceLoadError ==
    BadRefRow =>
        /\ ip2location_data = Unbound
        /\ pc \in {"load", "exit"}
        /\ feedPos = 0
        /\ yielded = <<>>
        /\ validated = <<>>
        /\ stdout = <<>>

\* the load failed on its second row, with a part of the index built and an
\* invalid record waiting in the feed
C6_Witness ==
    /\ pc = "exit"
    /\ refRows = << <<"US", "California", "CA">>, <<"US", "New York">> >>
    /\ records = [c \in {"US"} |-> {"CA"}]
    /\ ip2location_data = Unbound
    /\ feedRows = << <<"bad", "", "", "", "">> >>
    /\ stdout = <<>>

\* the rows of the feed that a run with a good reference table validates
Processed == IF FirstMalformed > 0 THEN FirstMalformed - 1 ELSE Len(feedRows)

\* C7: the exit status.  A finished run has a non-zero status exactly when the
\* reference table has a bad row, or the feed has a row that has not 5 fields,
\* or one of the records validated is invalid; and as soon as one validated
\* record is invalid exit_code is 1 and stays so over later valid records.
C7_ExitStatus ==
    /\ pc = "exit" =>
           /\ status \in {0, 1}
           /\ status # 0 <=>
                  \/ BadRefRow
                  \/ FirstMalformed > 0
                  \/ \E i \in 1..Processed :
                         Invalid(GeoRecord(feedRows[i]), IndexOf(refRows))
    /\ (ip2location_data.bound
            /\ \E i \in 1..Len(validated) : Invalid(validated[i], ip2location_data.value))
           => exit_code = 1

\* a run that ended with status 1 after an invalid record followed by a valid one
C7_Witness ==
    /\ pc = "exit"
    /\ status = 1
    /\ ~BadRefRow
    /\ Malformed = {}
    /\ Len(validated) = 2
    /\ Invalid(validated[1], ip2location_data.value)
    /\ ~Invalid(validated[2], ip2location_data.value)
    /\ raised = NoException

====
